---- MODULE Spec2Model ----
(***************************************************************************)
(* JIT function profiler (src/src/jitprof.cpp): the profile store          *)
(* (JITFunctionProfiler), the pre- and post-optimization instrumenters,    *)
(* the counters the instrumented code updates, and dump.                   *)
(***************************************************************************)
EXTENDS Integers, Sequences, FiniteSets, TLC

\* ---------------------------------------------------------------- bounds
NumThreads == 2    \* concurrent compilation / execution threads
MaxRuns == 1       \* runs of each pass that instrument a given function
MaxExec == 2       \* executions of compiled code, in total
MaxBlocks == 3     \* basic blocks of a function (shape enumeration)

Threads == 1..NumThreads
Fns == {1, 2}      \* the function objects handed to the passes
Names == {"f", "g"}

\* ---------------------------------------------------------------- IR
\* Terminator kinds of a basic block, as addBranchInstrumentation tells
\* them apart: "cond" a BranchInst on a non-constant condition, "uncond" an
\* unconditional BranchInst, "const" a BranchInst whose condition is a
\* Constant, "ret" any terminator that is not a BranchInst.
Kinds == {"cond", "uncond", "const", "ret"}

\* Callees of the call instructions: "" stands for an indirect call
\* (getCalledFunction() is null).
Callees == {"julia.gc_alloc_obj", "jl_gc_pool_alloc", "ijl_gc_big_alloc_instrumented",
            "jl_other", ""}

\* StringRef::contains on the callee names above.
Contains(Name, Frag) ==
    \/ Frag = "jl_gc_pool_alloc" /\ Name \in {"jl_gc_pool_alloc"}
    \/ Frag = "jl_gc_big_alloc" /\ Name \in {"ijl_gc_big_alloc_instrumented"}

NoMD == <<>>       \* getMetadata(...) returned null

\* A basic block: its call instructions (callee, size argument) and its
\* terminator.
Block(calls, term) == [calls |-> calls, term |-> term]
Call(callee, size) == [callee |-> callee, size |-> size]

\* A function before instrumentation. prof is the julia.prof annotation (NoMD or
\* a 4-tuple of i1 constants), reporter the julia.prof.reporter annotation
\* (NoMD or <<Limit>>), Loops what LoopAnalysis reports.
Function(Name, prof, reporter, BBs, Loops) ==
    [Name |-> Name, prof |-> prof, reporter |-> reporter, BBs |-> BBs, Loops |-> Loops]

\* F.size()
FSize(F) == Len(F.BBs)

\* BB.size(): the call instructions and the terminator
BBSize(BB) == Len(BB.calls) + 1

RECURSIVE Accumulate(_, _)
\* std::accumulate(F.begin(), F.end(), 0u, Acc + BB.size())
Accumulate(BBs, Acc) ==
    IF BBs = <<>> THEN Acc ELSE Accumulate(Tail(BBs), Acc + BBSize(Head(BBs)))

\* ---------------------------------------------------------------- flags
ProfilingFlags(a, b, c, p) ==
    [ProfileAllocations |-> a, ProfileBranches |-> b, ProfileCalls |-> c, ApplyPGO |-> p]

\* extractProfNum(MD, Idx)->getZExtValue()
extractProfNum(MD, Idx) == MD[Idx + 1]

\* ProfilingFlags::fromMDNode
fromMDNode(MD) ==
    ProfilingFlags(extractProfNum(MD, 0) # 0, extractProfNum(MD, 1) # 0,
                   extractProfNum(MD, 2) # 0, extractProfNum(MD, 3) # 0)

\* A bug the flag resolution could have: the force switches are ORed into the
\* annotation's flags.
fromFunction_ForcedOverAnnotation(F, ForceA, ForceC, ForceB) ==
    LET Base == IF F.prof # NoMD THEN fromMDNode(F.prof)
                ELSE ProfilingFlags(FALSE, FALSE, FALSE, FALSE)
    IN ProfilingFlags(Base.ProfileAllocations \/ ForceA, Base.ProfileBranches \/ ForceB,
                      Base.ProfileCalls \/ ForceC, Base.ApplyPGO)

\* fromFunction(F), the three cl::opt switches passed explicitly
fromFunction(F, ForceA, ForceC, ForceB) ==
    IF F.prof # NoMD THEN fromMDNode(F.prof)
    ELSE ProfilingFlags(FALSE \/ ForceA, FALSE \/ ForceB, FALSE \/ ForceC, FALSE)

\* ---------------------------------------------------------------- profiles
\* An empty std::unique_ptr<BranchInfo> and a populated one.
NullBranch == [ok |-> FALSE, Taken |-> 0, Total |-> 0]
BranchInfo(Taken, Total) == [ok |-> TRUE, Taken |-> Taken, Total |-> Total]

AllocInfo(Size, Count) == [Size |-> Size, Count |-> Count]

\* The factory of JITPreoptimizationProfiler::run: a value-initialised
\* FunctionProfile with the structural counts of F. BranchesMutex holds the
\* thread that owns it, 0 when free.
Create(F) ==
    [Name |-> F.Name, CallCount |-> 0, Preopt |-> AllocInfo(0, 0), Postopt |-> AllocInfo(0, 0),
     BranchProfiles |-> <<>>, BranchesMutex |-> 0,
     Loops |-> F.Loops, BBs |-> FSize(F), Insts |-> Accumulate(F.BBs, 0)]

\* ---------------------------------------------------------------- state
VARIABLES
    ForceProfileAllocations,  \* cl::opt julia-force-profile-allocations
    ForceProfileCalls,        \* cl::opt julia-force-profile-calls
    ForceProfileBranches,     \* cl::opt julia-force-profile-branches
    Fn,                       \* the functions as handed to the pipeline
    code,                     \* what the instrumenters have added to each function
    Heap,                     \* every FunctionProfile the factory has built, by address
    FunctionProfiles,         \* JITFunctionProfiler::FunctionProfiles: name -> address, 0 absent
    FunctionProfilesMutex,    \* its owner, 0 when free
    th,                       \* per thread: position and locals of the running operation
    runs,                     \* instrumenting runs of each pass so far, per function
    ret,                      \* the PreservedAnalyses each pass returned last, per function
    lastFlags,                \* the flags each function's last pass resolved
    nexec,                    \* executions started, per function
    trav,                     \* per function and block: traversals and taken traversals
    Reported,                 \* the reporter callback's invocations
    registered,               \* per name: the functions getOrCreateProfile returned for, in order
    OS,                       \* the raw_ostream dump writes to
    aborted                   \* a failed assert or a crash stopped the process

switches == <<ForceProfileAllocations, ForceProfileCalls, ForceProfileBranches>>
ghost == <<nexec, trav, Reported, registered>>
vars == <<ForceProfileAllocations, ForceProfileCalls, ForceProfileBranches, Fn, code, Heap,
          FunctionProfiles, FunctionProfilesMutex, th, runs, ret, lastFlags, nexec, trav,
          Reported, registered, OS, aborted>>

NoLimit == -1      \* no julia.prof.reporter annotation
NoFlags == <<>>

\* A function as it leaves codegen: no counter injected, no !prof metadata.
Uninstrumented(F) ==
    [entry |-> <<>>,
     br |-> [b \in 1..FSize(F) |-> <<>>],
     alloc |-> [b \in 1..FSize(F) |-> [c \in 1..Len(F.BBs[b].calls) |-> <<>>]],
     MD_prof |-> NoMD,
     weights |-> [b \in 1..FSize(F) |-> NoMD]]

Idle == [pc |-> "idle", F |-> 0, Prof |-> 0, It |-> 0, Flags |-> NoFlags, todo |-> <<>>]

PassPCs == {"goc_find", "goc_insert", "br_lock", "br_body", "pre_alloc", "pgo_entry",
            "pgo_lock", "pgo_loop"}

\* A pass is running on function f.
InPass(f) == \E t \in Threads : th[t].F = f /\ th[t].pc \in PassPCs

\* Compiled code of function f is running.
InExec(f) == \E t \in Threads : th[t].F = f /\ th[t].pc = "exec"

\* The post-optimization pass has changed function f.
PostInstrumented(f) ==
    \/ code[f].entry # <<>>
    \/ \E b \in DOMAIN code[f].alloc : \E c \in DOMAIN code[f].alloc[b] :
          \E k \in DOMAIN code[f].alloc[b][c] : code[f].alloc[b][c][k].Phase = "Postopt"

\* The pipeline may hand function f to a pass: nobody else works on it and it
\* has not been emitted and executed yet.
MayRunPass(t, f) ==
    /\ ~aborted
    /\ th[t].pc = "idle"
    /\ ~InPass(f) /\ ~InExec(f) /\ nexec[f] = 0

Flags(f) == fromFunction(Fn[f], ForceProfileAllocations, ForceProfileCalls, ForceProfileBranches)

\* ---------------------------------------------------------------- instrumentation
\* addCallInstrumentation: an atomicrmw add on Prof.CallCount at the entry's
\* first insertion point, and with a reporter annotation the comparison against
\* Limit and the guarded call of the reporter.
addCallInstrumentation(C, F, P) ==
    [C EXCEPT !.entry = << [Prof |-> P,
                            Limit |-> IF F.reporter # NoMD THEN extractProfNum(F.reporter, 0)
                                      ELSE NoLimit] >> \o @]

RECURSIVE BranchLoop_FreshSlots(_, _, _, _, _, _)
\* What the mutant of BranchLoop does: the slot is given a new zeroed
\* BranchInfo whether or not it has one.
BranchLoop_FreshSlots(BBs, i, BBidx, Slots, Br, P) ==
    IF i > Len(BBs) THEN [Slots |-> Slots, Br |-> Br]
    ELSE IF BBs[i].term \in {"cond", "uncond", "const"}
         THEN IF BBs[i].term \in {"uncond", "const"}
              THEN BranchLoop_FreshSlots(BBs, i + 1, BBidx, Slots, Br, P)
              ELSE BranchLoop_FreshSlots(BBs, i + 1, BBidx + 1,
                                         [Slots EXCEPT ![BBidx + 1] = BranchInfo(0, 0)],
                                         [Br EXCEPT ![i] = Append(@, [Prof |-> P, Idx |-> BBidx])], P)
         ELSE BranchLoop_FreshSlots(BBs, i + 1, BBidx + 1, Slots, Br, P)

RECURSIVE BranchLoop(_, _, _, _, _, _)
\* The loop of addBranchInstrumentation from block i on (1-based), BBidx as
\* the code counts it: the continue on an unconditional or constant branch
\* skips BBidx++.
BranchLoop(BBs, i, BBidx, Slots, Br, P) ==
    IF i > Len(BBs) THEN [Slots |-> Slots, Br |-> Br]
    ELSE IF BBs[i].term \in {"cond", "uncond", "const"}
         THEN IF BBs[i].term \in {"uncond", "const"}
              THEN BranchLoop(BBs, i + 1, BBidx, Slots, Br, P)
              ELSE BranchLoop(BBs, i + 1, BBidx + 1,
                              IF Slots[BBidx + 1].ok THEN Slots
                              ELSE [Slots EXCEPT ![BBidx + 1] = BranchInfo(0, 0)],
                              [Br EXCEPT ![i] = Append(@, [Prof |-> P, Idx |-> BBidx])], P)
         ELSE BranchLoop(BBs, i + 1, BBidx + 1, Slots, Br, P)

\* What the mutant of Resized does: the sequence is resized (std::vector::resize)
\* to the function's block count whether or not it is empty.
Resized_Always(Slots, F) ==
    [b \in 1..FSize(F) |-> IF b <= Len(Slots) THEN Slots[b] ELSE NullBranch]

\* Prof.BranchProfiles.resize(F.size()) when empty
Resized(Slots, F) == IF Slots = <<>> THEN [b \in 1..FSize(F) |-> NullBranch] ELSE Slots

\* What the mutant of Match does: every allocator matches in both phases.
Match_AnyPhase(callee, Preopt) ==
    /\ callee # ""
    /\ \/ callee = "julia.gc_alloc_obj"
       \/ Contains(callee, "jl_gc_pool_alloc") \/ Contains(callee, "jl_gc_big_alloc")

\* The callee test of addAllocInstrumentation
Match(callee, Preopt) ==
    /\ callee # ""
    /\ IF Preopt THEN callee = "julia.gc_alloc_obj"
       ELSE Contains(callee, "jl_gc_pool_alloc") \/ Contains(callee, "jl_gc_big_alloc")

\* addAllocInstrumentation: before every matching call, atomicrmw adds of the
\* size argument to Size and of 1 to Count of the given AllocInfo.
addAllocInstrumentation(C, F, P, Preopt) ==
    [C EXCEPT !.alloc =
        [b \in DOMAIN @ |-> [c \in DOMAIN @[b] |->
            IF Match(F.BBs[b].calls[c].callee, Preopt)
            THEN Append(@[b][c], [Prof |-> P, Phase |-> IF Preopt THEN "Preopt" ELSE "Postopt"])
            ELSE @[b][c]]]]

\* ---------------------------------------------------------------- the store
\* JITFunctionProfiler::getProfile: the lookup, made while holding
\* FunctionProfilesMutex; 0 is nullptr.
getProfile(Name) == FunctionProfiles[Name]

\* The thread can take FunctionProfilesMutex (std::lock_guard blocks otherwise).
StoreLockFree == FunctionProfilesMutex = 0

\* ---------------------------------------------------------------- pre-optimization pass
Returned(f, pass, PA) == ret' = [ret EXCEPT ![f][pass] = PA]

\* What the mutant of PreoptBegin does: it goes on to the store even when no
\* flag of the pass is set.
PreoptBegin_NoEarlyReturn(t, f) ==
    /\ MayRunPass(t, f)
    /\ ~PostInstrumented(f)
    /\ runs[f].pre < MaxRuns
    /\ runs' = [runs EXCEPT ![f].pre = @ + 1]
    /\ lastFlags' = [lastFlags EXCEPT ![f] = <<Flags(f)>>]
    /\ th' = [th EXCEPT ![t] = [Idle EXCEPT !.pc = "goc_find", !.F = f, !.Flags = Flags(f)]]
    /\ UNCHANGED <<switches, Fn, code, Heap, FunctionProfiles, FunctionProfilesMutex, ret,
                   ghost, OS, aborted>>

\* JITPreoptimizationProfiler::run up to the call of getOrCreateProfile: the
\* flags are resolved, and with none of branches, allocations and apply-PGO
\* set the pass returns PreservedAnalyses::all().
PreoptBegin(t, f) ==
    /\ MayRunPass(t, f)
    /\ ~PostInstrumented(f)
    /\ lastFlags' = [lastFlags EXCEPT ![f] = <<Flags(f)>>]
    /\ IF ~Flags(f).ProfileBranches /\ ~Flags(f).ProfileAllocations /\ ~Flags(f).ApplyPGO
       THEN /\ Returned(f, "pre", "all")
            /\ UNCHANGED <<th, runs>>
       ELSE /\ runs[f].pre < MaxRuns
            /\ runs' = [runs EXCEPT ![f].pre = @ + 1]
            /\ th' = [th EXCEPT ![t] = [Idle EXCEPT !.pc = "goc_find", !.F = f,
                                                    !.Flags = Flags(f)]]
            /\ UNCHANGED ret
    /\ UNCHANGED <<switches, Fn, code, Heap, FunctionProfiles, FunctionProfilesMutex,
                   ghost, OS, aborted>>

\* What the mutant of GetOrCreateFind does: the lookup is made without waiting
\* for FunctionProfilesMutex.
GetOrCreateFind_NoLock(t) ==
    /\ ~aborted
    /\ th[t].pc = "goc_find"
    /\ FunctionProfilesMutex' = t
    /\ th' = [th EXCEPT ![t].pc = "goc_insert",
                        ![t].It = FunctionProfiles[Fn[th[t].F].Name]]
    /\ UNCHANGED <<switches, Fn, code, Heap, FunctionProfiles, runs, ret, lastFlags,
                   ghost, OS, aborted>>

\* getOrCreateProfile, first half: the lock is taken and the name looked up.
GetOrCreateFind(t) ==
    /\ ~aborted
    /\ th[t].pc = "goc_find"
    /\ StoreLockFree
    /\ FunctionProfilesMutex' = t
    /\ th' = [th EXCEPT ![t].pc = "goc_insert",
                        ![t].It = FunctionProfiles[Fn[th[t].F].Name]]
    /\ UNCHANGED <<switches, Fn, code, Heap, FunctionProfiles, runs, ret, lastFlags,
                   ghost, OS, aborted>>

\* What the mutant of GetOrCreateInsert does: the factory runs and its
\* result replaces the entry whether or not the name was found.
GetOrCreateInsert_Overwrite(t) ==
    /\ ~aborted
    /\ th[t].pc = "goc_insert"
    /\ Heap' = Append(Heap, Create(Fn[th[t].F]))
    /\ FunctionProfiles' = [FunctionProfiles EXCEPT ![Fn[th[t].F].Name] = Len(Heap) + 1]
    /\ FunctionProfilesMutex' = 0
    /\ th' = [th EXCEPT ![t].It = 0, ![t].Prof = Len(Heap) + 1,
                        ![t].pc = IF th[t].Flags.ProfileBranches THEN "br_lock"
                                  ELSE "pre_alloc"]
    /\ registered' = [registered EXCEPT ![Fn[th[t].F].Name] = Append(@, th[t].F)]
    /\ UNCHANGED <<switches, Fn, code, runs, ret, lastFlags, nexec, trav, Reported, OS,
                   aborted>>

\* What the mutant of GetOrCreateInsert does: it returns the profile without
\* releasing FunctionProfilesMutex.
GetOrCreateInsert_KeepsLock(t) ==
    /\ ~aborted
    /\ th[t].pc = "goc_insert"
    /\ LET Name == Fn[th[t].F].Name
           New == Len(Heap) + 1
       IN  /\ IF th[t].It = 0
              THEN /\ Heap' = Append(Heap, Create(Fn[th[t].F]))
                   /\ FunctionProfiles' = [FunctionProfiles EXCEPT ![Name] = New]
              ELSE UNCHANGED <<Heap, FunctionProfiles>>
           /\ th' = [th EXCEPT ![t].It = 0,
                               ![t].Prof = IF th[t].It = 0 THEN New ELSE th[t].It,
                               ![t].pc = IF th[t].Flags.ProfileBranches THEN "br_lock"
                                         ELSE "pre_alloc"]
    /\ registered' = [registered EXCEPT ![Fn[th[t].F].Name] = Append(@, th[t].F)]
    /\ UNCHANGED <<switches, Fn, code, FunctionProfilesMutex, runs, ret, lastFlags, nexec,
                   trav, Reported, OS, aborted>>

\* getOrCreateProfile, second half: when the name was absent the factory
\* builds a profile and StringMap::insert adds it (insert keeps an entry that
\* is already there); the lock is released and the entry's profile returned.
GetOrCreateInsert(t) ==
    /\ ~aborted
    /\ th[t].pc = "goc_insert"
    /\ LET Name == Fn[th[t].F].Name
           New == Len(Heap) + 1
       IN  /\ IF th[t].It = 0
              THEN /\ Heap' = Append(Heap, Create(Fn[th[t].F]))
                   /\ FunctionProfiles' = IF FunctionProfiles[Name] = 0
                                          THEN [FunctionProfiles EXCEPT ![Name] = New]
                                          ELSE FunctionProfiles
              ELSE UNCHANGED <<Heap, FunctionProfiles>>
           /\ th' = [th EXCEPT ![t].It = 0,
                               ![t].Prof = IF th[t].It = 0 THEN FunctionProfiles'[Name]
                                           ELSE th[t].It,
                               ![t].pc = IF th[t].Flags.ProfileBranches THEN "br_lock"
                                         ELSE "pre_alloc"]
    /\ FunctionProfilesMutex' = 0
    /\ registered' = [registered EXCEPT ![Fn[th[t].F].Name] = Append(@, th[t].F)]
    /\ UNCHANGED <<switches, Fn, code, runs, ret, lastFlags, nexec, trav, Reported, OS,
                   aborted>>

\* addBranchInstrumentation: std::lock_guard on Prof.BranchesMutex.
BranchLock(t) ==
    /\ ~aborted
    /\ th[t].pc = "br_lock"
    /\ Heap[th[t].Prof].BranchesMutex = 0
    /\ Heap' = [Heap EXCEPT ![th[t].Prof].BranchesMutex = t]
    /\ th' = [th EXCEPT ![t].pc = "br_body"]
    /\ UNCHANGED <<switches, Fn, code, FunctionProfiles, FunctionProfilesMutex, runs, ret,
                   lastFlags, ghost, OS, aborted>>

\* addBranchInstrumentation under the lock: the lazy resize, the assert on the
\* size (a failed assert stops the process), the loop over the blocks, and
\* the release of the lock.
BranchBody(t) ==
    /\ ~aborted
    /\ th[t].pc = "br_body"
    /\ LET P == th[t].Prof
           f == th[t].F
           Slots == Resized(Heap[P].BranchProfiles, Fn[f])
       IN  IF Len(Slots) # FSize(Fn[f])
           THEN /\ aborted' = TRUE
                /\ Heap' = [Heap EXCEPT ![P].BranchProfiles = Slots]
                /\ UNCHANGED <<code, th>>
           ELSE LET R == BranchLoop(Fn[f].BBs, 1, 0, Slots, code[f].br, P)
                IN  /\ Heap' = [Heap EXCEPT ![P].BranchProfiles = R.Slots,
                                            ![P].BranchesMutex = 0]
                    /\ code' = [code EXCEPT ![f].br = R.Br]
                    /\ th' = [th EXCEPT ![t].pc = "pre_alloc"]
                    /\ UNCHANGED aborted
    /\ UNCHANGED <<switches, Fn, FunctionProfiles, FunctionProfilesMutex, runs, ret,
                   lastFlags, ghost, OS>>

\* JITPreoptimizationProfiler::run after the branches: the allocation
\* instrumentation when requested; without apply-PGO the pass then returns
\* PreservedAnalyses::none().
PreoptAlloc(t) ==
    /\ ~aborted
    /\ th[t].pc = "pre_alloc"
    /\ LET f == th[t].F
       IN  /\ code' = IF th[t].Flags.ProfileAllocations
                      THEN [code EXCEPT ![f] = addAllocInstrumentation(@, Fn[f], th[t].Prof, TRUE)]
                      ELSE code
           /\ IF th[t].Flags.ApplyPGO
              THEN /\ th' = [th EXCEPT ![t].pc = "pgo_entry"]
                   /\ UNCHANGED ret
              ELSE /\ th' = [th EXCEPT ![t] = Idle]
                   /\ Returned(f, "pre", "none")
    /\ UNCHANGED <<switches, Fn, Heap, FunctionProfiles, FunctionProfilesMutex, runs,
                   lastFlags, ghost, OS, aborted>>

\* applyPGOInstrumentation, first statements: CallCount is loaded and becomes
\* the function entry count.
PGOEntry(t) ==
    /\ ~aborted
    /\ th[t].pc = "pgo_entry"
    /\ code' = [code EXCEPT ![th[t].F].MD_prof = <<Heap[th[t].Prof].CallCount>>]
    /\ th' = [th EXCEPT ![t].pc = "pgo_lock"]
    /\ UNCHANGED <<switches, Fn, Heap, FunctionProfiles, FunctionProfilesMutex, runs, ret,
                   lastFlags, ghost, OS, aborted>>

\* applyPGOInstrumentation, "std::lock_guard<std::mutex> (Prof.BranchesMutex);":
\* a temporary, so the lock is taken and released in this one statement.
PGOLock(t) ==
    /\ ~aborted
    /\ th[t].pc = "pgo_lock"
    /\ Heap[th[t].Prof].BranchesMutex = 0
    /\ th' = [th EXCEPT ![t].pc = "pgo_loop"]
    /\ UNCHANGED <<switches, Fn, code, Heap, FunctionProfiles, FunctionProfilesMutex, runs,
                   ret, lastFlags, ghost, OS, aborted>>

\* What a read through an empty unique_ptr or past the end of the vector may
\* yield when it does not crash.
GarbageReads == {BranchInfo(0, 0), BranchInfo(1, 1)}

\* Prof.BranchProfiles[BBidx] names a populated slot (i is BBidx + 1).
ValidSlot(Slots, i) == i <= Len(Slots) /\ Slots[i].ok

\* The weights applyPGOInstrumentation's loop leaves on the blocks, reading
\* Read for every slot it cannot validly read.
PGOWeights(F, Slots, Old, Read) ==
    [b \in 1..FSize(F) |->
        LET Branch == IF ValidSlot(Slots, b) THEN Slots[b] ELSE Read
        IN  IF Branch.Total > 0 THEN <<Branch.Taken, Branch.Total - Branch.Taken>>
            ELSE Old[b]]

\* Another thread is inside addBranchInstrumentation on the same profile, under
\* the lock, and is about to resize the sequence or populate a slot of it.
Racing(t) ==
    \E u \in Threads \ {t} :
        /\ th[u].pc = "br_body" /\ th[u].Prof = th[t].Prof
        /\ LET Cur == Heap[th[u].Prof].BranchProfiles
               S == Resized(Cur, Fn[th[u].F])
           IN  /\ Len(S) = FSize(Fn[th[u].F])
               /\ BranchLoop(Fn[th[u].F].BBs, 1, 0, S, code[th[u].F].br, th[u].Prof).Slots # Cur

\* applyPGOInstrumentation's loop, run without the lock: block BBidx reads slot
\* BBidx. Dereferencing an empty slot, indexing past the end, and reading the
\* sequence while another thread writes it are undefined: the process crashes
\* or the reads yield garbage. Then the pass returns PreservedAnalyses::none().
PGOLoop(t) ==
    /\ ~aborted
    /\ th[t].pc = "pgo_loop"
    /\ LET f == th[t].F
           Slots == Heap[th[t].Prof].BranchProfiles
       IN  \/ /\ Racing(t) \/ \E b \in 1..FSize(Fn[f]) : ~ValidSlot(Slots, b)
              /\ aborted' = TRUE
              /\ UNCHANGED <<code, th, ret>>
           \/ /\ \E Read \in GarbageReads, Seen \in {Slots} \cup (IF Racing(t) THEN {<<>>} ELSE {}) :
                    code' = [code EXCEPT ![f].weights = PGOWeights(Fn[f], Seen, @, Read)]
              /\ th' = [th EXCEPT ![t] = Idle]
              /\ Returned(f, "pre", "none")
              /\ UNCHANGED aborted
    /\ UNCHANGED <<switches, Fn, Heap, FunctionProfiles, FunctionProfilesMutex, runs,
                   lastFlags, ghost, OS>>

\* ---------------------------------------------------------------- post-optimization pass
\* What the mutant of PostoptRun does: it fetches the profile with
\* getOrCreateProfile, so a missing profile is created.
PostoptRun_Creates(t, f) ==
    /\ MayRunPass(t, f)
    /\ StoreLockFree
    /\ runs[f].post < MaxRuns
    /\ runs' = [runs EXCEPT ![f].post = @ + 1]
    /\ lastFlags' = [lastFlags EXCEPT ![f] = <<Flags(f)>>]
    /\ LET Name == Fn[f].Name
           P == IF getProfile(Name) = 0 THEN Len(Heap) + 1 ELSE getProfile(Name)
       IN  /\ Heap' = IF getProfile(Name) = 0 THEN Append(Heap, Create(Fn[f])) ELSE Heap
           /\ FunctionProfiles' = [FunctionProfiles EXCEPT ![Name] = P]
           /\ code' = [code EXCEPT ![f] = addCallInstrumentation(@, Fn[f], P)]
    /\ Returned(f, "post", "none")
    /\ UNCHANGED <<switches, Fn, FunctionProfilesMutex, th, ghost, OS, aborted>>

\* JITPostoptimizationProfiler::run. The lookup is the only shared access, made
\* under FunctionProfilesMutex; the rest changes the function alone.
PostoptRun(t, f) ==
    /\ MayRunPass(t, f)
    /\ lastFlags' = [lastFlags EXCEPT ![f] = <<Flags(f)>>]
    /\ IF ~Flags(f).ProfileAllocations /\ ~Flags(f).ProfileCalls
       THEN /\ Returned(f, "post", "all")
            /\ UNCHANGED <<code, runs>>
       ELSE /\ StoreLockFree
            /\ LET Prof == getProfile(Fn[f].Name)
                   C1 == IF Flags(f).ProfileCalls
                         THEN addCallInstrumentation(code[f], Fn[f], Prof) ELSE code[f]
                   C2 == IF Flags(f).ProfileAllocations
                         THEN addAllocInstrumentation(C1, Fn[f], Prof, FALSE) ELSE C1
               IN  IF Prof = 0
                   THEN /\ Returned(f, "post", "all")
                        /\ UNCHANGED <<code, runs>>
                   ELSE /\ runs[f].post < MaxRuns
                        /\ runs' = [runs EXCEPT ![f].post = @ + 1]
                        /\ code' = [code EXCEPT ![f] = C2]
                        /\ Returned(f, "post", "none")
    /\ UNCHANGED <<switches, Fn, Heap, FunctionProfiles, FunctionProfilesMutex, th,
                   ghost, OS, aborted>>

\* ---------------------------------------------------------------- instrumented code
\* One injected atomicrmw (for "call": with the reporter check that follows it).
Op(op, Prof, Idx, v) == [op |-> op, Prof |-> Prof, Idx |-> Idx, v |-> v]

RECURSIVE EntryOps(_)
\* The injected instructions at the function's entry, in program order.
EntryOps(entry) ==
    IF entry = <<>> THEN <<>>
    ELSE <<Op("call", Head(entry).Prof, 0, Head(entry).Limit)>> \o EntryOps(Tail(entry))

RECURSIVE AllocOps(_, _)
\* The instructions injected before one call: per instrumentation the add of
\* the size argument to Size, then the add of 1 to Count.
AllocOps(ins, size) ==
    IF ins = <<>> THEN <<>>
    ELSE << Op(IF Head(ins).Phase = "Preopt" THEN "PreSize" ELSE "PostSize",
               Head(ins).Prof, 0, size),
            Op(IF Head(ins).Phase = "Preopt" THEN "PreCount" ELSE "PostCount",
               Head(ins).Prof, 0, 1) >> \o AllocOps(Tail(ins), size)

RECURSIVE CallsOps(_, _, _)
\* The injected instructions of the calls of one block, from call c on.
CallsOps(calls, alloc, c) ==
    IF c > Len(calls) THEN <<>>
    ELSE AllocOps(alloc[c], calls[c].size) \o CallsOps(calls, alloc, c + 1)

RECURSIVE BranchOps_TakenFirst(_, _)
\* What the mutant of BranchOps does: the two adds are injected in the other
\* order, Taken before Total.
BranchOps_TakenFirst(ins, cond) ==
    IF ins = <<>> THEN <<>>
    ELSE << Op("Taken", Head(ins).Prof, Head(ins).Idx, cond),
            Op("Total", Head(ins).Prof, Head(ins).Idx, 1) >> \o BranchOps_TakenFirst(Tail(ins), cond)

RECURSIVE BranchOps(_, _)
\* The instructions injected before one branch: per instrumentation the add
\* of 1 to Total, then the add of the zero-extended condition to Taken.
BranchOps(ins, cond) ==
    IF ins = <<>> THEN <<>>
    ELSE << Op("Total", Head(ins).Prof, Head(ins).Idx, 1),
            Op("Taken", Head(ins).Prof, Head(ins).Idx, cond) >> \o BranchOps(Tail(ins), cond)

RECURSIVE BodyOps(_, _, _, _)
\* The injected instructions one execution runs from block b on, along path.
BodyOps(F, C, path, b) ==
    IF b > FSize(F) THEN <<>>
    ELSE (IF path[b] = "skip" THEN <<>>
          ELSE CallsOps(F.BBs[b].calls, C.alloc[b], 1)
               \o BranchOps(C.br[b], IF path[b] = "taken" THEN 1 ELSE 0))
         \o BodyOps(F, C, path, b + 1)

\* The paths an execution can take. The entry block runs; a block with calls or
\* a conditional branch runs or not, and its branch is taken or not. A block
\* with neither executes no injected instruction whether it runs or not, and
\* is listed as run.
Paths(F) ==
    { path \in [1..FSize(F) -> {"skip", "taken", "not"}] :
        /\ path[1] # "skip"
        /\ \A b \in 1..FSize(F) :
              /\ path[b] = "taken" => F.BBs[b].term = "cond"
              /\ path[b] = "skip" => F.BBs[b].term = "cond" \/ F.BBs[b].calls # <<>> }

TotalExec == nexec[1] + nexec[2]

\* A thread calls compiled function f and runs it along path.
ExecBegin(t, f, path) ==
    /\ ~aborted
    /\ th[t].pc = "idle"
    /\ ~InPass(f)
    /\ TotalExec < MaxExec
    /\ nexec' = [nexec EXCEPT ![f] = @ + 1]
    /\ trav' = [trav EXCEPT ![f] = [b \in DOMAIN @ |->
                   [M |-> @[b].M + IF path[b] # "skip" THEN 1 ELSE 0,
                    K |-> @[b].K + IF path[b] = "taken" THEN 1 ELSE 0]]]
    /\ LET todo == EntryOps(code[f].entry) \o BodyOps(Fn[f], code[f], path, 1)
       IN  th' = [th EXCEPT ![t] = IF todo = <<>> THEN Idle
                                   ELSE [Idle EXCEPT !.pc = "exec", !.F = f, !.todo = todo]]
    /\ UNCHANGED <<switches, Fn, code, Heap, FunctionProfiles, FunctionProfilesMutex, runs,
                   ret, lastFlags, Reported, registered, OS, aborted>>

\* What the mutant of Atomic does: an add that is lost when the counter was
\* already advanced by another execution.
Atomic_Lossy(old, v) == IF old > 0 THEN old ELSE old + v

\* atomicrmw add: the new value of a counter holding old.
Atomic(old, v) == old + v

\* The profile after one injected atomicrmw.
Apply(Prof, o) ==
    CASE o.op = "call" -> [Prof EXCEPT !.CallCount = Atomic(@, 1)]
      [] o.op = "PreSize" -> [Prof EXCEPT !.Preopt.Size = Atomic(@, o.v)]
      [] o.op = "PreCount" -> [Prof EXCEPT !.Preopt.Count = Atomic(@, o.v)]
      [] o.op = "PostSize" -> [Prof EXCEPT !.Postopt.Size = Atomic(@, o.v)]
      [] o.op = "PostCount" -> [Prof EXCEPT !.Postopt.Count = Atomic(@, o.v)]
      [] o.op = "Total" -> [Prof EXCEPT !.BranchProfiles[o.Idx + 1].Total = Atomic(@, o.v)]
      [] o.op = "Taken" -> [Prof EXCEPT !.BranchProfiles[o.Idx + 1].Taken = Atomic(@, o.v)]

\* The reporter check after the call counter's atomicrmw: the value the
\* atomicrmw yields (the counter before the add) is compared with Limit.
Report(old, Limit) == Limit # NoLimit /\ old = Limit

\* The running code executes its next injected instruction.
ExecStep(t) ==
    /\ ~aborted
    /\ th[t].pc = "exec"
    /\ LET o == Head(th[t].todo)
       IN  /\ Heap' = [Heap EXCEPT ![o.Prof] = Apply(@, o)]
           /\ Reported' = IF o.op = "call" /\ Report(Heap[o.Prof].CallCount, o.v)
                          THEN Append(Reported, [F |-> th[t].F, Limit |-> o.v,
                                                 After |-> Heap'[o.Prof].CallCount])
                          ELSE Reported
    /\ th' = [th EXCEPT ![t] = IF Tail(th[t].todo) = <<>> THEN Idle
                               ELSE [@ EXCEPT !.todo = Tail(@)]]
    /\ UNCHANGED <<switches, Fn, code, FunctionProfiles, FunctionProfilesMutex, runs, ret,
                   lastFlags, nexec, trav, registered, OS, aborted>>

\* ---------------------------------------------------------------- dump
\* The names with a profile in the store.
Keys == {n \in Names : FunctionProfiles[n] # 0}

\* The orders in which a StringMap holding the names S may be iterated.
Orders(S) ==
    {o \in [1..Cardinality(S) -> S] : \A i, j \in DOMAIN o : o[i] = o[j] => i = j}

\* dump, what is written for one profile before its BranchesMutex is taken:
\* Name, Calls when nonzero, Allocs when one of the two Counts is nonzero.
RenderHead(Name, P) ==
    << <<"Name", Name>> >>
    \o (IF P.CallCount # 0 THEN << <<"Calls", P.CallCount>> >> ELSE <<>>)
    \o (IF P.Preopt.Count # 0 \/ P.Postopt.Count # 0
        THEN << <<"Allocs", <<P.Preopt, P.Postopt>> >> >> ELSE <<>>)

RECURSIVE RenderSlots(_, _)
\* dump's loop over the slots from index Idx on (0-based): the populated ones.
RenderSlots(Slots, Idx) ==
    IF Idx >= Len(Slots) THEN <<>>
    ELSE (IF Slots[Idx + 1].ok
          THEN << [Idx |-> Idx, Taken |-> Slots[Idx + 1].Taken, Total |-> Slots[Idx + 1].Total] >>
          ELSE <<>>)
         \o RenderSlots(Slots, Idx + 1)

\* dump, what is written for one profile under its BranchesMutex and after:
\* Branches when a slot is populated, Loops when nonzero, BBs and Insts.
RenderRest(P) ==
    (IF RenderSlots(P.BranchProfiles, 0) # <<>>
     THEN << <<"Branches", RenderSlots(P.BranchProfiles, 0)>> >> ELSE <<>>)
    \o (IF P.Loops # 0 THEN << <<"Loops", P.Loops>> >> ELSE <<>>)
    \o << <<"BBs", P.BBs>>, <<"Insts", P.Insts>> >>

\* dump takes FunctionProfilesMutex and starts iterating the map.
DumpBegin(t) ==
    /\ ~aborted
    /\ th[t].pc = "idle"
    /\ StoreLockFree
    /\ FunctionProfilesMutex' = t
    /\ OS' = <<>>
    /\ \E o \in Orders(Keys) : th' = [th EXCEPT ![t] = [Idle EXCEPT !.pc = "dump_head", !.todo = o]]
    /\ UNCHANGED <<switches, Fn, code, Heap, FunctionProfiles, runs, ret, lastFlags, ghost,
                   aborted>>

\* What the mutant of DumpHead does: Calls is written whether or not the
\* counter is zero.
DumpHead_AlwaysCalls(t) ==
    /\ ~aborted
    /\ th[t].pc = "dump_head"
    /\ th[t].todo # <<>>
    /\ LET Name == Head(th[t].todo)
       IN  OS' = Append(OS, << <<"Name", Name>>,
                               <<"Calls", Heap[FunctionProfiles[Name]].CallCount>> >>)
    /\ th' = [th EXCEPT ![t].pc = "dump_rest"]
    /\ UNCHANGED <<switches, Fn, code, Heap, FunctionProfiles, FunctionProfilesMutex, runs,
                   ret, lastFlags, ghost, aborted>>

\* dump writes the first part of the next profile's object.
DumpHead(t) ==
    /\ ~aborted
    /\ th[t].pc = "dump_head"
    /\ th[t].todo # <<>>
    /\ LET Name == Head(th[t].todo)
       IN  OS' = Append(OS, RenderHead(Name, Heap[FunctionProfiles[Name]]))
    /\ th' = [th EXCEPT ![t].pc = "dump_rest"]
    /\ UNCHANGED <<switches, Fn, code, Heap, FunctionProfiles, FunctionProfilesMutex, runs,
                   ret, lastFlags, ghost, aborted>>

\* dump takes the profile's BranchesMutex, writes its branches, releases it,
\* and writes the rest of the object.
DumpRest(t) ==
    /\ ~aborted
    /\ th[t].pc = "dump_rest"
    /\ LET P == Heap[FunctionProfiles[Head(th[t].todo)]]
       IN  /\ P.BranchesMutex = 0
           /\ OS' = [OS EXCEPT ![Len(OS)] = @ \o RenderRest(P)]
    /\ th' = [th EXCEPT ![t].pc = "dump_head", ![t].todo = Tail(@)]
    /\ UNCHANGED <<switches, Fn, code, Heap, FunctionProfiles, FunctionProfilesMutex, runs,
                   ret, lastFlags, ghost, aborted>>

\* dump has written every profile: the line is closed and handed to the sink,
\* and FunctionProfilesMutex is released.
DumpEnd(t) ==
    /\ ~aborted
    /\ th[t].pc = "dump_head"
    /\ th[t].todo = <<>>
    /\ FunctionProfilesMutex' = 0
    /\ OS' = <<>>
    /\ th' = [th EXCEPT ![t] = Idle]
    /\ UNCHANGED <<switches, Fn, code, Heap, FunctionProfiles, runs, ret, lastFlags, ghost,
                   aborted>>

\* ---------------------------------------------------------------- specifications
\* The state after construction of the store, for the functions Fs (one per
\* function object) and the three switches.
Start(Fs, ForceA, ForceC, ForceB) ==
    /\ ForceProfileAllocations = ForceA
    /\ ForceProfileCalls = ForceC
    /\ ForceProfileBranches = ForceB
    /\ Fn = Fs
    /\ code = [f \in Fns |-> Uninstrumented(Fs[f])]
    /\ Heap = <<>>
    /\ FunctionProfiles = [n \in Names |-> 0]
    /\ FunctionProfilesMutex = 0
    /\ th = [t \in Threads |-> Idle]
    /\ runs = [f \in Fns |-> [pre |-> 0, post |-> 0]]
    /\ ret = [f \in Fns |-> [pre |-> "-", post |-> "-"]]
    /\ lastFlags = [f \in Fns |-> <<>>]
    /\ nexec = [f \in Fns |-> 0]
    /\ trav = [f \in Fns |-> [b \in 1..FSize(Fs[f]) |-> [M |-> 0, K |-> 0]]]
    /\ Reported = <<>>
    /\ registered = [n \in Names |-> <<>>]
    /\ OS = <<>>
    /\ aborted = FALSE

AllAnnotations == {NoMD} \cup [1..4 -> {0, 1}]

\* A two-block function with both kinds of allocation call.
Sample(prof, reporter) ==
    Function("f", prof, reporter,
             << Block(<< Call("julia.gc_alloc_obj", 2), Call("jl_gc_pool_alloc", 3) >>, "cond"),
                Block(<<>>, "ret") >>, 1)

\* Every arrangement of terminator kinds in 1..n blocks without calls.
Shapes(n) == UNION { [1..k -> {Block(<<>>, term) : term \in Kinds}] : k \in 1..n }

\* The passes alone: the two threads compile a function and a second function
\* of the same name and shape. The function is drawn along each input
\* dimension: every annotation under every switch combination, and every
\* block shape.
InitCompile ==
    \/ \E prof \in AllAnnotations, reporter \in {NoMD, <<1>>}, ForceA, ForceC, ForceB \in BOOLEAN :
          Start([f \in Fns |-> Sample(prof, reporter)], ForceA, ForceC, ForceB)
    \/ \E BBs \in Shapes(MaxBlocks) :
          Start([f \in Fns |-> Function("f", <<0, 1, 1, 0>>, NoMD, BBs, 0)], FALSE, FALSE, FALSE)
    \/ \E callee \in Callees :
          Start([f \in Fns |-> Function("f", <<1, 0, 0, 0>>, NoMD,
                                        << Block(<< Call(callee, 2) >>, "ret") >>, 0)],
                FALSE, FALSE, FALSE)

Compile(t) ==
    \/ \E f \in Fns : PreoptBegin(t, f)
    \/ GetOrCreateFind(t)
    \/ GetOrCreateInsert(t)
    \/ BranchLock(t)
    \/ BranchBody(t)
    \/ PreoptAlloc(t)
    \/ PGOEntry(t)
    \/ PGOLock(t)
    \/ PGOLoop(t)
    \/ \E f \in Fns : PostoptRun(t, f)

NextCompile == \E t \in Threads : Compile(t)

SpecCompile == InitCompile /\ [][NextCompile]_vars

\* The whole system: threads compile, run the compiled code and dump,
\* concurrently. The first function is one of Catalog; the second is the same
\* function, a grown one, one without annotation or one with apply-PGO alone,
\* under the same name or another.
Catalog ==
    { Function("f", <<0, 0, 1, 0>>, <<1>>, << Block(<<>>, "ret") >>, 0),
      Function("f", <<0, 1, 1, 0>>, <<1>>,
               << Block(<<>>, "uncond"), Block(<<>>, "cond"), Block(<<>>, "ret") >>, 1),
      Function("f", <<1, 0, 1, 0>>, NoMD,
               << Block(<< Call("julia.gc_alloc_obj", 2), Call("jl_gc_pool_alloc", 3),
                           Call("jl_other", 1) >>, "cond"),
                  Block(<<>>, "ret") >>, 0),
      Function("f", <<0, 1, 0, 1>>, NoMD, << Block(<<>>, "cond"), Block(<<>>, "ret") >>, 0) }

\* F with one more block and one more loop.
Grown(F) == [F EXCEPT !.BBs = Append(@, Block(<<>>, "ret")), !.Loops = @ + 1]

Init ==
    \E F1 \in Catalog, Name2 \in Names :
        \E F2 \in {F1, Grown(F1), [F1 EXCEPT !.prof = NoMD],
                   [F1 EXCEPT !.prof = <<0, 0, 0, 1>>]} :
            Start([f \in Fns |-> IF f = 1 THEN F1 ELSE [F2 EXCEPT !.Name = Name2]],
                  FALSE, FALSE, FALSE)

\* A thread runs compiled code.
Run(t) ==
    \/ \E f \in Fns : \E path \in Paths(Fn[f]) : ExecBegin(t, f, path)
    \/ ExecStep(t)

Next == \E t \in Threads : Compile(t) \/ Run(t)

Spec == Init /\ [][Next]_vars

\* The whole system with threads that dump the store, for the functions of
\* Catalog that get a profile, each compiled twice.
InitDump ==
    \E F1 \in {F \in Catalog : F.prof # <<0, 0, 1, 0>>}, Name2 \in Names :
        Start([f \in Fns |-> [F1 EXCEPT !.Name = IF f = 1 THEN "f" ELSE Name2]],
              FALSE, FALSE, FALSE)

Dump(t) ==
    \/ DumpBegin(t)
    \/ DumpHead(t)
    \/ DumpRest(t)
    \/ DumpEnd(t)

NextDump == \E t \in Threads : Compile(t) \/ Run(t) \/ Dump(t)

SpecDump == InitDump /\ [][NextDump]_vars

\* A thread goes on with the operation it is in, at a step that waits for no
\* lock.
Proceed(t) ==
    \/ GetOrCreateInsert(t)
    \/ BranchBody(t)
    \/ PreoptAlloc(t)
    \/ PGOEntry(t)
    \/ PGOLoop(t)
    \/ ExecStep(t)
    \/ DumpHead(t)
    \/ DumpEnd(t)

\* A thread goes on with the operation it is in, at a step that takes a lock:
\* FunctionProfilesMutex in getOrCreateProfile, BranchesMutex in
\* addBranchInstrumentation, applyPGOInstrumentation and dump.
Acquire(t) ==
    \/ GetOrCreateFind(t)
    \/ BranchLock(t)
    \/ PGOLock(t)
    \/ DumpRest(t)

\* Fair scheduling: a thread that can go on does, and a thread waiting for a
\* lock that is free again and again gets it.
Fairness == \A t \in Threads : WF_vars(Proceed(t)) /\ SF_vars(Acquire(t))

\* The whole system with dump, for two functions named f with a conditional
\* branch, annotated for branches and apply-PGO, under fair scheduling.
InitLive ==
    Start([f \in Fns |-> Function("f", <<0, 1, 0, 1>>, NoMD,
                                  << Block(<<>>, "cond"), Block(<<>>, "ret") >>, 0)],
          FALSE, FALSE, FALSE)

SpecLive == InitLive /\ [][NextDump]_vars /\ Fairness

\* ---------------------------------------------------------------- properties
\* Nothing is running: no pass, no compiled code, no dump.
Quiescent == \A t \in Threads : th[t].pc = "idle"

\* The profile stored under function f's name (defined when there is one).
ProfileOf(f) == Heap[FunctionProfiles[Fn[f].Name]]

HasProfile(f) == FunctionProfiles[Fn[f].Name] # 0

\* Function f alone carries its name.
OnlyOfItsName(f) == \A g \in Fns \ {f} : Fn[g].Name # Fn[f].Name

CallsOnly(f) == Flags(f) = ProfilingFlags(FALSE, FALSE, TRUE, FALSE)

NoAllocCount(P) == P.Preopt = AllocInfo(0, 0) /\ P.Postopt = AllocInfo(0, 0)

NoBranchCount(P) ==
    \A i \in DOMAIN P.BranchProfiles : P.BranchProfiles[i].Taken = 0 /\ P.BranchProfiles[i].Total = 0

\* C1: a function with only call profiling enabled, after the pre- and the
\* post-optimization pass ran on it and it was executed N >= 1 times, has a
\* profile whose CallCount is N and whose other counters are all zero.
C1_CallsOnlyCounted ==
    \A f \in Fns :
        ( /\ CallsOnly(f) /\ OnlyOfItsName(f)
          /\ ret[f].pre # "-" /\ ret[f].post # "-"
          /\ nexec[f] >= 1 /\ Quiescent )
        => /\ HasProfile(f)
           /\ ProfileOf(f).CallCount = nexec[f]
           /\ NoAllocCount(ProfileOf(f)) /\ NoBranchCount(ProfileOf(f))

\* The pre-optimization pass that instrumented f's branches is over, and it
\* was the first branch instrumentation of the profile.
FirstBranchInstrumentation(f) ==
    /\ lastFlags[f] # <<>> /\ lastFlags[f][1].ProfileBranches
    /\ runs[f].pre = 1 /\ ret[f].pre = "none"
    /\ \A g \in Fns \ {f} : runs[g].pre = 0

\* C2: after the first branch instrumentation of a profile, for a function of
\* B blocks, BranchProfiles has B slots, slot i is populated exactly when
\* block i ends in a conditional branch on a non-constant condition, and the
\* counters injected before block i's branch are those of slot i.
C2_SlotsMatchBlocks ==
    \A f \in Fns :
        FirstBranchInstrumentation(f)
        => /\ Len(ProfileOf(f).BranchProfiles) = FSize(Fn[f])
           /\ \A i \in 1..FSize(Fn[f]) :
                 /\ i <= Len(ProfileOf(f).BranchProfiles)
                 /\ ProfileOf(f).BranchProfiles[i].ok <=> Fn[f].BBs[i].term = "cond"
                 /\ code[f].br[i] # <<>> <=> Fn[f].BBs[i].term = "cond"
                 /\ \A k \in DOMAIN code[f].br[i] :
                       /\ code[f].br[i][k].Prof = FunctionProfiles[Fn[f].Name]
                       /\ code[f].br[i][k].Idx = i - 1

\* C3: for every instrumented conditional branch, once all executions have
\* finished, the slot of the branch's block reports Total = M and Taken = K for
\* the M traversals of the branch of which K were taken.
C3_BranchCountsExact ==
    \A f \in Fns :
        ( /\ Quiescent /\ HasProfile(f)
          /\ \A g \in Fns \ {f} : nexec[g] = 0 )
        => \A b \in 1..FSize(Fn[f]) :
              (code[f].br[b] # <<>> /\ trav[f][b].M >= 1)
              => /\ b <= Len(ProfileOf(f).BranchProfiles)
                 /\ ProfileOf(f).BranchProfiles[b].ok
                 /\ ProfileOf(f).BranchProfiles[b].Total = trav[f][b].M
                 /\ ProfileOf(f).BranchProfiles[b].Taken = trav[f][b].K

\* C4: the reporter callback is invoked only by the execution whose increment
\* moves CallCount to the threshold, and at most once per function.
C4_ReportAtThreshold ==
    /\ \A i \in DOMAIN Reported : Reported[i].After = Reported[i].Limit
    /\ \A i, j \in DOMAIN Reported : Reported[i].F = Reported[j].F => i = j

\* Function f has no annotation and the three force switches are off.
Unselected(f) ==
    /\ Fn[f].prof = NoMD
    /\ ~ForceProfileAllocations /\ ~ForceProfileCalls /\ ~ForceProfileBranches

\* C5: on a function without annotation, with the three force switches off, the
\* two passes change nothing however often and in whatever order they run: the
\* function's code stays as it was, no step of a pass on it changes the
\* store, no pass gets past its early return, and both report all analyses
\* preserved.
C5_UnselectedNoOp ==
    [][ \A f \in Fns :
          Unselected(f)
          => /\ code[f] = Uninstrumented(Fn[f]) /\ code'[f] = code[f]
             /\ runs'[f] = [pre |-> 0, post |-> 0]
             /\ ret'[f].pre \in {"-", "all"} /\ ret'[f].post \in {"-", "all"}
             /\ \A t \in Threads : th'[t].F = f => th'[t].pc = "exec"
             /\ (ret'[f] # ret[f] \/ lastFlags'[f] # lastFlags[f])
                => UNCHANGED <<Heap, FunctionProfiles>> ]_vars

\* Both passes have run on an unselected function while the store holds a
\* profile of its name.
C5_Witness ==
    \E f \in Fns : Unselected(f) /\ ret[f].pre = "all" /\ ret[f].post = "all" /\ HasProfile(f)

\* The counters injected into function f all belong to profile P.
CountersIn(f, P) ==
    /\ \A k \in DOMAIN code[f].entry : code[f].entry[k].Prof = P
    /\ \A b \in DOMAIN code[f].br : \A k \in DOMAIN code[f].br[b] : code[f].br[b][k].Prof = P
    /\ \A b \in DOMAIN code[f].alloc : \A c \in DOMAIN code[f].alloc[b] :
          \A k \in DOMAIN code[f].alloc[b][c] : code[f].alloc[b][c][k].Prof = P

\* The factory has built at most one profile per name, the store holds it, every
\* caller of getOrCreateProfile got it, and every injected counter is one of its.
OneProfilePerName ==
    /\ \A n \in Names :
          /\ Cardinality({i \in DOMAIN Heap : Heap[i].Name = n}) <= 1
          /\ FunctionProfiles[n] = 0 <=> {i \in DOMAIN Heap : Heap[i].Name = n} = {}
          /\ FunctionProfiles[n] # 0
             => FunctionProfiles[n] \in DOMAIN Heap /\ Heap[FunctionProfiles[n]].Name = n
    /\ \A t \in Threads : th[t].Prof # 0 => th[t].Prof = FunctionProfiles[Fn[th[t].F].Name]
    /\ \A f \in Fns : CountersIn(f, FunctionProfiles[Fn[f].Name])

\* C6: the store holds at most one profile per name; concurrent
\* getOrCreateProfile calls with one name invoke the factory once in total and
\* all receive the same record; a record once inserted is never replaced or
\* removed, and the counters of same-named functions accumulate in it.
C6_OneRecordPerName ==
    [][ /\ OneProfilePerName'
        /\ Len(Heap') >= Len(Heap)
        /\ \A n \in Names : FunctionProfiles[n] # 0 => FunctionProfiles'[n] = FunctionProfiles[n]
      ]_vars

\* Two functions of one name have both been through getOrCreateProfile.
C6_Witness ==
    \E n \in Names : Len(registered[n]) = 2 /\ registered[n][1] # registered[n][2]
                     /\ FunctionProfiles[n] # 0

\* C7: the post-optimization pass never changes the store, and when no profile
\* exists for the function's name it leaves the function's code unchanged and
\* reports all analyses preserved, whatever the flags; the store grows only in
\* getOrCreateProfile.
C7_PostoptNeverCreates ==
    [][ /\ \A t \in Threads, f \in Fns :
              PostoptRun(t, f)
              => /\ UNCHANGED <<Heap, FunctionProfiles>>
                 /\ FunctionProfiles[Fn[f].Name] = 0 => code' = code /\ ret'[f].post = "all"
        /\ (Len(Heap') # Len(Heap) \/ FunctionProfiles' # FunctionProfiles)
           => \E t \in Threads : th[t].pc = "goc_insert" /\ th'[t].pc # "goc_insert"
      ]_vars

\* The post-optimization pass ran with call or allocation profiling requested
\* and found no profile.
C7_Witness ==
    \E f \in Fns : /\ lastFlags[f] # <<>>
                   /\ lastFlags[f][1].ProfileCalls \/ lastFlags[f][1].ProfileAllocations
                   /\ ret[f].post = "all" /\ ~HasProfile(f)

\* C8: with a julia.prof annotation the four flags are the annotation's four
\* values in the order allocations, branches, calls, apply-PGO, whatever the
\* force switches; without one, the first three equal the force switches and
\* ApplyPGO is false.
C8_FlagResolution ==
    \A f \in Fns :
        lastFlags[f] # <<>>
        => LET Fl == lastFlags[f][1]
               MD == Fn[f].prof
           IN  IF MD # NoMD
               THEN /\ Fl.ProfileAllocations = (MD[1] = 1)
                    /\ Fl.ProfileBranches = (MD[2] = 1)
                    /\ Fl.ProfileCalls = (MD[3] = 1)
                    /\ Fl.ApplyPGO = (MD[4] = 1)
               ELSE /\ Fl.ProfileAllocations = ForceProfileAllocations
                    /\ Fl.ProfileBranches = ForceProfileBranches
                    /\ Fl.ProfileCalls = ForceProfileCalls
                    /\ Fl.ApplyPGO = FALSE

\* Flags were resolved for an all-off annotation with every force switch on.
C8_Witness ==
    \E f \in Fns : /\ lastFlags[f] # <<>> /\ Fn[f].prof = <<0, 0, 0, 0>>
                   /\ ForceProfileAllocations /\ ForceProfileCalls /\ ForceProfileBranches

\* Object e of the report has a member named k; its value.
HasKey(e, k) == \E i \in DOMAIN e : e[i][1] = k
Value(e, k) == e[CHOOSE i \in DOMAIN e : e[i][1] = k][2]

\* The indices of the populated slots of profile P, 0-based.
Populated(P) == {i - 1 : i \in {j \in DOMAIN P.BranchProfiles : P.BranchProfiles[j].ok}}

\* A dump has written every object and not yet released the store.
DumpComplete(t) == th[t].pc = "dump_head" /\ th[t].todo = <<>>

\* C9: dump writes one object per profile of the store, each with Name, BBs and
\* Insts; Calls is there iff CallCount is nonzero, Allocs iff Preopt.Count or
\* Postopt.Count is nonzero, Branches iff a slot is populated, and then it
\* lists exactly the populated slots in increasing index order, Loops iff it
\* is nonzero (each against the profile as it is when that part is written).
C9_DumpRendersStore ==
    [][ \A t \in Threads :
          /\ (th[t].pc = "dump_head" /\ th'[t].pc = "dump_rest")
             => LET n == Head(th[t].todo)
                    P == Heap[FunctionProfiles[n]]
                    e == OS'[Len(OS')]
                IN  /\ Len(OS') = Len(OS) + 1
                    /\ HasKey(e, "Name") /\ Value(e, "Name") = n
                    /\ HasKey(e, "Calls") <=> P.CallCount # 0
                    /\ HasKey(e, "Allocs") <=> (P.Preopt.Count # 0 \/ P.Postopt.Count # 0)
          /\ (th[t].pc = "dump_rest" /\ th'[t].pc = "dump_head")
             => LET P == Heap[FunctionProfiles[Head(th[t].todo)]]
                    e == OS'[Len(OS')]
                IN  /\ Len(OS') = Len(OS)
                    /\ \A k \in {"Name", "Calls", "Allocs"} : HasKey(e, k) <=> HasKey(OS[Len(OS)], k)
                    /\ HasKey(e, "BBs") /\ HasKey(e, "Insts")
                    /\ HasKey(e, "Loops") <=> P.Loops # 0
                    /\ HasKey(e, "Branches") <=> Populated(P) # {}
                    /\ HasKey(e, "Branches")
                       => LET L == Value(e, "Branches")
                          IN  /\ {L[j].Idx : j \in DOMAIN L} = Populated(P)
                              /\ \A j, k \in DOMAIN L : j < k => L[j].Idx < L[k].Idx
          /\ DumpComplete(t)'
             => /\ Len(OS') = Cardinality(Keys')
                /\ {Value(OS'[i], "Name") : i \in DOMAIN OS'} = Keys'
      ]_vars

\* A dump has written two profiles, one with calls and branches counted and
\* one never called.
C9_Witness ==
    \E t \in Threads :
        /\ DumpComplete(t) /\ Len(OS) = 2
        /\ \E i \in DOMAIN OS : HasKey(OS[i], "Calls") /\ HasKey(OS[i], "Branches")
        /\ \E i \in DOMAIN OS : ~HasKey(OS[i], "Calls")

\* The static description the factory captures of function F.
StaticOf(F) == [Loops |-> F.Loops, BBs |-> FSize(F), Insts |-> Accumulate(F.BBs, 0)]

Static(P) == [Loops |-> P.Loops, BBs |-> P.BBs, Insts |-> P.Insts]

\* C10 as stated: the shared profile describes the function registered last
\* under its name.
C10_LastRegisteredWins ==
    \A n \in Names :
        (registered[n] # <<>> /\ FunctionProfiles[n] # 0)
        => Static(Heap[FunctionProfiles[n]]) = StaticOf(Fn[registered[n][Len(registered[n])]])

\* C10 amended: the shared profile describes the function registered first
\* under its name, and the counters injected into every function of that name
\* are those of the one profile.
C10_FirstRegisteredWins ==
    \A n \in Names :
        (registered[n] # <<>> /\ FunctionProfiles[n] # 0)
        => /\ Static(Heap[FunctionProfiles[n]]) = StaticOf(Fn[registered[n][1]])
           /\ \A f \in Fns : Fn[f].Name = n => CountersIn(f, FunctionProfiles[n])

\* Two functions of one name and different shape have been through the
\* pre-optimization pass.
C10_Witness ==
    \E n \in Names :
        /\ Len(registered[n]) = 2 /\ Quiescent /\ ~aborted
        /\ StaticOf(Fn[registered[n][1]]) # StaticOf(Fn[registered[n][2]])
        /\ \A k \in 1..2 : ret[registered[n][k]].pre = "none"
                           /\ code[registered[n][k]] # Uninstrumented(Fn[registered[n][k]])

\* C11: the pre-optimization pass reports the analyses preserved whenever it
\* performs only branch and/or allocation instrumentation, and reports them
\* invalidated exactly when apply-PGO is requested.
C11_PreoptSignal ==
    \A f \in Fns :
        ret[f].pre # "-" => (ret[f].pre = "all" <=> ~Flags(f).ApplyPGO)

\* C12: the post-optimization pass reports "not all analyses preserved" only
\* on runs in which it inserted instrumentation into the function; a run that
\* inserted nothing reports all analyses preserved.
C12_PostoptSignal ==
    \A f \in Fns :
        /\ ret[f].post = "none" => PostInstrumented(f)
        /\ (ret[f].post # "-" /\ ~PostInstrumented(f)) => ret[f].post = "all"

\* An execution has added to a slot's Total and not yet to its Taken.
BetweenTotalAndTaken ==
    \E t \in Threads : th[t].pc = "exec" /\ Head(th[t].todo).op = "Taken"

\* C13: whenever no execution is between its Total increment and its Taken
\* increment, every populated slot has Taken <= Total, whatever traversals ran,
\* concurrently or not, taken or not.
C13_TakenAtMostTotal ==
    ~BetweenTotalAndTaken
    => \A i \in DOMAIN Heap : \A s \in DOMAIN Heap[i].BranchProfiles :
          Heap[i].BranchProfiles[s].ok
          => Heap[i].BranchProfiles[s].Taken <= Heap[i].BranchProfiles[s].Total

\* A branch was traversed twice, once taken and once not.
C13_Witness ==
    /\ ~BetweenTotalAndTaken
    /\ \E i \in DOMAIN Heap : \E s \in DOMAIN Heap[i].BranchProfiles :
          /\ Heap[i].BranchProfiles[s].ok
          /\ Heap[i].BranchProfiles[s].Total = 2 /\ Heap[i].BranchProfiles[s].Taken = 1

\* C14: with apply-PGO the pre-optimization pass sets the function entry
\* count from the profile's current CallCount and, for every function shape,
\* attaches to the terminator of each block whose slot is populated the
\* weights (Taken, Total - Taken) of that slot, and skips the blocks whose
\* slot is empty, which receive no weights. (A populated slot with Total = 0
\* may get the weights (0, 0) or none.)
C14_PGOAppliesProfile ==
    [][ \A t \in Threads :
          LET f == th[t].F
              Slots == Heap[th[t].Prof].BranchProfiles
          IN  /\ PGOEntry(t) => code'[f].MD_prof = <<Heap[th[t].Prof].CallCount>>
              /\ PGOLoop(t)
                 => /\ ~aborted' /\ ret'[f].pre = "none"
                    /\ \A b \in 1..FSize(Fn[f]) :
                          IF ValidSlot(Slots, b)
                          THEN \/ code'[f].weights[b] = <<Slots[b].Taken, Slots[b].Total - Slots[b].Taken>>
                               \/ Slots[b].Total = 0 /\ code'[f].weights[b] = code[f].weights[b]
                          ELSE code'[f].weights[b] = code[f].weights[b] ]_vars

\* Thread t is inside a region of code that reads or writes the BranchProfiles
\* sequence of profile i: the body of addBranchInstrumentation or the loop of
\* applyPGOInstrumentation. (dump's region is the single step DumpRest, which
\* waits for the lock.)
Accessing(t, i) == th[t].pc \in {"br_body", "pgo_loop"} /\ th[t].Prof = i

\* C15: every access to a profile's BranchProfiles sequence is made by a
\* thread that holds the profile's BranchesMutex, so no thread reads the
\* sequence while another resizes or populates it.
C15_BranchProfilesGuarded ==
    \A t \in Threads : \A i \in DOMAIN Heap :
        Accessing(t, i)
        => /\ Heap[i].BranchesMutex = t
           /\ \A u \in Threads \ {t} : ~Accessing(u, i)

\* Every counter of profile P is at most the same counter of profile Q.
CountersLeq(P, Q) ==
    /\ P.CallCount <= Q.CallCount
    /\ P.Preopt.Size <= Q.Preopt.Size /\ P.Preopt.Count <= Q.Preopt.Count
    /\ P.Postopt.Size <= Q.Postopt.Size /\ P.Postopt.Count <= Q.Postopt.Count
    /\ \A s \in DOMAIN P.BranchProfiles :
          P.BranchProfiles[s].ok
          => /\ s \in DOMAIN Q.BranchProfiles /\ Q.BranchProfiles[s].ok
             /\ P.BranchProfiles[s].Taken <= Q.BranchProfiles[s].Taken
             /\ P.BranchProfiles[s].Total <= Q.BranchProfiles[s].Total

\* C16: no step of any behaviour decreases or resets a counter: a profile stays
\* the profile of its name, and CallCount, the Size and Count of Preopt and
\* Postopt, and the Taken and Total of every populated slot only grow, also
\* when a pass runs again on a function whose profile and slots exist, when
\* PGO is applied, and when the store is dumped.
C16_CountersNonDecreasing ==
    [][ /\ \A i \in DOMAIN Heap : i \in DOMAIN Heap' /\ CountersLeq(Heap[i], Heap'[i])
        /\ \A n \in Names : FunctionProfiles[n] # 0 => FunctionProfiles'[n] = FunctionProfiles[n]
      ]_vars

\* The branches of a function have just been instrumented under a profile one of
\* whose slots had already counted a traversal of another function of the name.
C16_Witness ==
    \E t \in Threads :
        /\ th[t].pc = "pre_alloc" /\ th[t].Flags.ProfileBranches
        /\ \A u \in Threads \ {t} : th[u].pc = "idle"
        /\ code[th[t].F].br # Uninstrumented(Fn[th[t].F]).br
        /\ \E s \in DOMAIN Heap[th[t].Prof].BranchProfiles :
              /\ Heap[th[t].Prof].BranchProfiles[s].ok
              /\ Heap[th[t].Prof].BranchProfiles[s].Total = MaxExec

\* Thread t is in addBranchInstrumentation, under the lock, for a function whose
\* block count differs from the length the profile's sequence already has.
Mismatch(t) ==
    /\ th[t].pc = "br_body"
    /\ Heap[th[t].Prof].BranchProfiles # <<>>
    /\ Len(Heap[th[t].Prof].BranchProfiles) # FSize(Fn[th[t].F])

\* C17: a profile's BranchProfiles sequence is sized once, by the first branch
\* instrumentation and to that function's block count, and its length never
\* changes afterwards; a later branch instrumentation of a function with
\* another block count stops the process without resizing the sequence,
\* populating a slot or injecting a counter, and nothing runs after that.
C17_SizedOnceMismatchFatal ==
    [][ /\ ~aborted
        /\ \A i \in DOMAIN Heap :
              IF Heap[i].BranchProfiles # <<>>
              THEN Len(Heap'[i].BranchProfiles) = Len(Heap[i].BranchProfiles)
              ELSE Heap'[i].BranchProfiles # <<>>
                   => \E t \in Threads :
                         /\ BranchBody(t) /\ th[t].Prof = i
                         /\ Len(Heap'[i].BranchProfiles) = FSize(Fn[th[t].F])
        /\ \A t \in Threads :
              (Mismatch(t) /\ BranchBody(t))
              => /\ aborted'
                 /\ UNCHANGED <<code, th, ret>>
                 /\ Heap'[th[t].Prof].BranchProfiles = Heap[th[t].Prof].BranchProfiles
      ]_vars

\* The process was stopped by a branch instrumentation of a function with one
\* block more than the sequence has slots.
C17_Witness ==
    /\ aborted
    /\ \A t \in Threads : th[t].pc # "pgo_loop"
    /\ \E t \in Threads : Mismatch(t) /\ Heap[th[t].Prof].BranchesMutex = t

\* The allocation calls each phase counts, as the claim names them.
Target(callee, phase) ==
    IF phase = "Preopt" THEN callee = "julia.gc_alloc_obj"
    ELSE callee \in {"jl_gc_pool_alloc", "ijl_gc_big_alloc_instrumented"}

\* How many times the pass of the phase has instrumented function f's
\* allocation calls: once per run that got to addAllocInstrumentation.
AllocInstrumented(f, phase) ==
    IF Flags(f).ProfileAllocations
    THEN (IF phase = "Preopt" THEN runs[f].pre ELSE runs[f].post)
    ELSE 0

RECURSIVE CallsSum(_, _, _)
\* Over the calls of one block: the size arguments (what = "Size") or the
\* number (what = "Count") of the calls the phase counts.
CallsSum(calls, phase, what) ==
    IF calls = <<>> THEN 0
    ELSE (IF Target(Head(calls).callee, phase)
          THEN (IF what = "Size" THEN Head(calls).size ELSE 1) ELSE 0)
         + CallsSum(Tail(calls), phase, what)

RECURSIVE ExecutedSum(_, _, _, _)
\* Over the executions of function f so far, from block b on.
ExecutedSum(f, b, phase, what) ==
    IF b > FSize(Fn[f]) THEN 0
    ELSE trav[f][b].M * CallsSum(Fn[f].BBs[b].calls, phase, what)
         + ExecutedSum(f, b + 1, phase, what)

\* What the executed allocation calls of the functions named n that the phase
\* instrumented add up to.
Expected(n, phase) ==
    LET Of(f, what) == IF Fn[f].Name = n
                       THEN AllocInstrumented(f, phase) * ExecutedSum(f, 1, phase, what)
                       ELSE 0
    IN  AllocInfo(Of(1, "Size") + Of(2, "Size"), Of(1, "Count") + Of(2, "Count"))

\* C18: the allocation counters of the two phases are kept apart. Once the
\* executions have finished, Preopt holds the number and the summed size
\* arguments of the executed calls to julia.gc_alloc_obj that the
\* pre-optimization pass instrumented, Postopt those of the executed calls to
\* jl_gc_pool_alloc / jl_gc_big_alloc that the post-optimization pass
\* instrumented, and calls to other targets are in neither: each executed
\* call adds 1 and its size argument per instrumentation of the call, so
\* exactly 1 and its size in a function the pass instrumented once.
C18_AllocPhasesSeparate ==
    (\A t \in Threads : th[t].pc # "exec")
    => \A n \in Names :
          FunctionProfiles[n] # 0
          => /\ Heap[FunctionProfiles[n]].Preopt = Expected(n, "Preopt")
             /\ Heap[FunctionProfiles[n]].Postopt = Expected(n, "Postopt")

\* Two functions of one name, both instrumented before optimization and one
\* also after it, have each run once through calls to both allocators and to
\* another function.
C18_Witness ==
    /\ Quiescent
    /\ \E n \in Names :
          /\ FunctionProfiles[n] # 0
          /\ Heap[FunctionProfiles[n]].Preopt = AllocInfo(4, 2)
          /\ Heap[FunctionProfiles[n]].Postopt = AllocInfo(3, 1)
    /\ \E f \in Fns : \E b \in DOMAIN Fn[f].BBs : \E c \in DOMAIN Fn[f].BBs[b].calls :
          Fn[f].BBs[b].calls[c].callee = "jl_other" /\ trav[f][b].M >= 1

\* C20: the PGO-feedback step never indexes BranchProfiles outside the
\* sequence and never reads the counters of an empty slot, whatever flags
\* come with apply-PGO: every slot its loop reads exists and is populated.
C20_PGOReadsValidSlots ==
    [][ \A t \in Threads :
          PGOLoop(t)
          => \A b \in 1..FSize(Fn[th[t].F]) :
                /\ b <= Len(Heap[th[t].Prof].BranchProfiles)
                /\ Heap[th[t].Prof].BranchProfiles[b].ok ]_vars

\* Thread t holds the BranchesMutex of some profile.
HoldsBranches(t) == \E i \in DOMAIN Heap : Heap[i].BranchesMutex = t

\* Thread t can take the next step of the operation it is in.
CanGoOn(t) == ENABLED (Proceed(t) \/ Acquire(t))

\* No thread waits for a lock that will never be released: a thread inside an
\* operation can go on, or another thread inside an operation can.
NoDeadlock ==
    ~aborted
    => \A t \in Threads :
          th[t].pc # "idle"
          => CanGoOn(t) \/ \E u \in Threads \ {t} : th[u].pc # "idle" /\ CanGoOn(u)

\* The store lock is never taken, or waited for, by a thread that holds a
\* BranchesMutex; BranchesMutex is taken under the store lock by dump alone.
LockOrder ==
    \A t \in Threads :
        /\ HoldsBranches(t) => th[t].pc = "br_body" /\ FunctionProfilesMutex # t
        /\ FunctionProfilesMutex = t => th[t].pc \in {"goc_insert", "dump_head", "dump_rest"}

\* The injected counter updates wait for no lock.
HotPathNeverWaits ==
    \A t \in Threads : (th[t].pc = "exec" /\ ~aborted) => ENABLED ExecStep(t)

====
